---- MODULE Spec2Model ----
(***************************************************************************)
(* word2ipa (src/src/main.rs): a word -> IPA lookup against a bundled JSON *)
(* dictionary, the submit handler that displays the result and keeps a     *)
(* history, and the IPA symbol catalog rendered at startup.                *)
(*                                                                         *)
(* Strings are sequences of tokens: a word is a sequence of characters, a  *)
(* formatted message is the concatenation of its literal pieces and its    *)
(* arguments, as format! builds it.                                        *)
(*                                                                         *)
(* The two components share no state, so each has its own specification:   *)
(*   SpecResolve  word_to_ipa as a function of (word, dictionary resource) *)
(*   Spec         main, Word2ipaModel::init and the submit handler         *)
(*   SpecCatalog  main and IpaDictionaryModel::init                        *)
(***************************************************************************)
EXTENDS Naturals, Sequences, FiniteSets, TLC

\* ------------------------------------------------------------- bounds
\* longest word handed to word_to_ipa in SpecResolve
MaxLen == 2
\* most entry blocks in the dictionary resource
MaxBlocks == 2
\* longest text in the entry buffer
MaxText == 1
\* most Msg::TextChanged messages queued and not yet handled
MaxPending == 1
\* most word_to_ipa calls made by the submit handler
MaxCalls == 2
\* longest examples / ipa_examples list of a catalog entry
MaxExamples == 3
\* most entries in the symbol catalog
MaxEntries == 1

\* ------------------------------------------------------------- strings
\* characters: one cased letter in both cases, and a blank
Alphabet == {"a", "A", " "}

StringsUpTo(n) == UNION {[1..k -> Alphabet] : k \in 0..n}

Words == StringsUpTo(MaxLen)

Texts == StringsUpTo(MaxText)

\* char::to_lowercase on the alphabet
LowerChar(c) == IF c = "A" THEN "a" ELSE c

\* faulty variant: the word is probed as given
to_lowercase_identity(word) == word

\* str::to_lowercase: every character mapped, length and order kept
to_lowercase(word) == [i \in 1..Len(word) |-> LowerChar(word[i])]

\* faulty variant: the emptiness test is missing
is_empty_never(word) == FALSE

\* String::is_empty
is_empty(word) == Len(word) = 0

\* ------------------------------------------------------------- results
Ok(v) == [ok |-> TRUE, val |-> v]

Err(m) == [ok |-> FALSE, val |-> m]

\* ------------------------------------------------------------- dictionary resource
\* transcriptions stored in the dictionary
Ipas == {<<"ae">>, <<"ei">>}

\* words that occur as dictionary keys: lowercase keys of one and of two
\* characters, a key that is not lowercase, and a key that is blank
DictKeys == {<<"a">>, <<"A">>, <<" ">>, <<"a", "a">>}

\* HashMap<String, String>: a function from a set of keys to transcriptions
Blocks == UNION {[D -> Ipas] : D \in SUBSET DictKeys}

\* the blocks after the first: empty or of one key
LaterBlocks == {b \in Blocks : Cardinality(DOMAIN b) <= 1}

\* Vec<HashMap<String, String>>: no block, or a first block and later blocks
EntrySeqs ==
    {<<>>} \cup
    {<<b>> \o rest : b \in Blocks,
                     rest \in UNION {[1..k -> LaterBlocks] : k \in 0..(MaxBlocks - 1)}}

\* the bundled resource /com/mohfy/word2ipa/dicts/en_US.json as the three
\* steps of word_to_ipa see it: absent, not UTF-8, not the Dictionary shape,
\* or a Dictionary { entries }
DictResources ==
    {[tag |-> t, entries |-> <<>>] : t \in {"missing", "bad_utf8", "bad_json"}}
        \cup {[tag |-> "json", entries |-> e] : e \in EntrySeqs}

\* faulty variant: an empty block stands in for a missing one
get_or_default(v, i) == IF i < Len(v) THEN <<v[i + 1]>> ELSE << <<>> >>

\* faulty variant: the last block is read instead of block i
get_last(v, i) == IF Len(v) > 0 THEN <<v[Len(v)]>> ELSE <<>>

\* Vec::get(i): Some(v[i]) or None, as a sequence of at most one element
get(v, i) == IF i < Len(v) THEN <<v[i + 1]>> ELSE <<>>

\* faulty variant: the message names the lowercased word
WordNotFoundLowered(word) ==
    <<"Word '">> \o [i \in 1..Len(word) |-> IF word[i] = "A" THEN "a" ELSE word[i]]
        \o <<"' not found.">>

\* format!("Word '{}' not found.", word)
WordNotFound(word) == <<"Word '">> \o word \o <<"' not found.">>

EmptyDictionary == <<"Dictionary format error.">>

ResourceMissing == <<"Failed to load resource: ", "{e}">>

EncodingError == <<"Invalid UTF-8 in resource: ", "{e}">>

MalformedJson == <<"Failed to parse JSON: ", "{e}">>

\* the three ?-steps of word_to_ipa: lookup, from_utf8, serde_json::from_str
load_dictionary(res) ==
    IF res.tag = "missing" THEN Err(ResourceMissing)
    ELSE IF res.tag = "bad_utf8" THEN Err(EncodingError)
    ELSE IF res.tag = "bad_json" THEN Err(MalformedJson)
    ELSE Ok(res.entries)

word_to_ipa(word, res) ==
    LET dictionary == load_dictionary(res) IN
    IF ~dictionary.ok THEN dictionary
    ELSE LET first == get(dictionary.val, 0) IN
         IF first # <<>>
         THEN LET first_map == first[1]
                  key == to_lowercase(word) IN
              IF key \in DOMAIN first_map
              THEN Ok(first_map[key])
              ELSE Err(WordNotFound(word))
         ELSE Err(EmptyDictionary)

\* ------------------------------------------------------------- state
VARIABLES pc, dictRes, ipaRes, buffer, pending, ipa_result, history, group,
          stderr, calls, loads, lastCall, ret, entries, rows

vars == <<pc, dictRes, ipaRes, buffer, pending, ipa_result, history, group,
          stderr, calls, loads, lastCall, ret, entries, rows>>

Placeholder == <<"IPA translation will appear here.">>

NoResource == [tag |-> "missing", entries |-> <<>>]

\* ------------------------------------------------------------- SpecResolve
InitResolve ==
    /\ pc = "resolve"
    /\ dictRes \in DictResources
    /\ ipaRes = NoResource
    /\ buffer = <<>>
    /\ pending = 0
    /\ ipa_result = Placeholder
    /\ history = <<>>
    /\ group = <<>>
    /\ stderr = <<>>
    /\ calls = 0
    /\ loads = 0
    /\ lastCall = <<>>
    /\ ret = Err(<<>>)
    /\ entries = <<>>
    /\ rows = <<>>

\* one call word_to_ipa(word) against the bundled resource
Resolve(word) ==
    /\ pc = "resolve"
    /\ lastCall' = <<word>>
    /\ ret' = word_to_ipa(word, dictRes)
    /\ UNCHANGED <<pc, dictRes, ipaRes, buffer, pending, ipa_result, history,
                   group, stderr, calls, loads, entries, rows>>

NextResolve == \E word \in Words : Resolve(word)

SpecResolve == InitResolve /\ [][NextResolve]_vars

\* ------------------------------------------------------------- Spec
\* the dictionary resources of Spec: the load failures, the dictionary of no
\* entry block, and the dictionaries of one entry block with keys of one
\* character (word_to_ipa never reads a later block)
UIDictResources ==
    {r \in DictResources :
        /\ Len(r.entries) <= 1
        /\ \A i \in 1..Len(r.entries) : \A k \in DOMAIN r.entries[i] : Len(k) <= 1}

Init ==
    /\ pc = "main"
    /\ dictRes \in UIDictResources
    /\ ipaRes = NoResource
    /\ buffer = <<>>
    /\ pending = 0
    /\ ipa_result = <<>>
    /\ history = <<>>
    /\ group = <<>>
    /\ stderr = <<>>
    /\ calls = 0
    /\ loads = 0
    /\ lastCall = <<>>
    /\ ret = Err(<<>>)
    /\ entries = <<>>
    /\ rows = <<>>

\* main: gio::Resource::load succeeds, the bundle is registered and the
\* application is launched
main_register ==
    /\ pc = "main"
    /\ pc' = "launch"
    /\ UNCHANGED <<dictRes, ipaRes, buffer, pending, ipa_result, history, group,
                   stderr, calls, loads, lastCall, ret, entries, rows>>

\* main: gio::Resource::load fails and .expect panics
main_panic ==
    /\ pc = "main"
    /\ pc' = "panicked"
    /\ stderr' = <<"Failed to initialize the resource file.">>
    /\ UNCHANGED <<dictRes, ipaRes, buffer, pending, ipa_result, history, group,
                   calls, loads, lastCall, ret, entries, rows>>

Word2ipaModel_init ==
    /\ pc = "launch"
    /\ pc' = "running"
    /\ buffer' = <<>>
    /\ ipa_result' = Placeholder
    /\ history' = <<>>
    /\ group' = <<>>
    /\ UNCHANGED <<dictRes, ipaRes, pending, stderr, calls, loads, lastCall,
                   ret, entries, rows>>

\* the user edits the text of the gtk::Entry
TypeText(text) ==
    /\ pc = "running"
    /\ buffer' = text
    /\ UNCHANGED <<pc, dictRes, ipaRes, pending, ipa_result, history, group,
                   stderr, calls, loads, lastCall, ret, entries, rows>>

\* connect_activate: sender.input(Msg::TextChanged)
Activate ==
    /\ pc = "running"
    /\ pending < MaxPending
    /\ pending' = pending + 1
    /\ UNCHANGED <<pc, dictRes, ipaRes, buffer, ipa_result, history, group,
                   stderr, calls, loads, lastCall, ret, entries, rows>>

\* faulty variant: the pair is inserted at the front
push_front(v, x) == <<x>> \o v

\* Vec::push
push(v, x) == Append(v, x)

\* faulty variant: the lowercased word is stored
history_item_lowered(word, ipa) ==
    <<[i \in 1..Len(word) |-> IF word[i] = "A" THEN "a" ELSE word[i]], ipa>>

\* the pair pushed onto the history: (word.clone(), ipa.clone())
history_item(word, ipa) == <<word, ipa>>

\* the adw::ActionRow added to the History group
ActionRow(item) == [title |-> item[2], subtitle |-> item[1]]

\* faulty variant: the parsed dictionary is kept after the first load
loads_after_cached(n, res) ==
    IF res.tag = "json" /\ n = 0 THEN 1 ELSE n

\* completed dictionary loads after one more word_to_ipa call: the resource
\* is looked up, decoded and parsed anew in every call
loads_after(n, res) == IF load_dictionary(res).ok THEN n + 1 ELSE n

\* Word2ipaModel::update(Msg::TextChanged)
update ==
    /\ pc = "running"
    /\ pending > 0
    /\ pending' = pending - 1
    /\ LET word == buffer IN
       IF is_empty(word)
       THEN /\ ipa_result' = Placeholder
            /\ UNCHANGED <<history, group, stderr, calls, loads, lastCall, ret>>
       ELSE /\ calls < MaxCalls
            /\ calls' = calls + 1
            /\ loads' = loads_after(loads, dictRes)
            /\ lastCall' = <<word>>
            /\ LET r == word_to_ipa(word, dictRes) IN
               /\ ret' = r
               /\ IF r.ok
                  THEN /\ ipa_result' = r.val
                       /\ history' = push(history, history_item(word, r.val))
                       /\ group' = Append(group, ActionRow(history'[Len(history')]))
                       /\ UNCHANGED stderr
                  ELSE /\ ipa_result' = <<"Error: ">> \o r.val
                       /\ stderr' = <<"error: ">> \o r.val
                       /\ UNCHANGED <<history, group>>
    /\ UNCHANGED <<pc, dictRes, ipaRes, buffer, entries, rows>>

Next ==
    \/ main_register
    \/ main_panic
    \/ Word2ipaModel_init
    \/ \E text \in Texts : TypeText(text)
    \/ Activate
    \/ update

Spec == Init /\ [][Next]_vars

\* ------------------------------------------------------------- SpecCatalog
ExampleWords == {"ship", "wish"}

ExampleIpas == {"Sip", "wiS"}

ListsUpTo(S, n) == UNION {[1..k -> S] : k \in 0..n}

\* struct IpaEntry
IpaEntry(examples, ipa_examples) ==
    [symbol |-> "S", sound |-> "sh",
     description |-> "voiceless postalveolar fricative",
     examples |-> examples, ipa_examples |-> ipa_examples]

IpaEntries ==
    {IpaEntry(e, i) : e \in ListsUpTo(ExampleWords, MaxExamples),
                      i \in ListsUpTo(ExampleIpas, MaxExamples)}

\* the entries after the first: at most one example and one transcription
ShortEntries ==
    {IpaEntry(e, i) : e \in ListsUpTo(ExampleWords, 1),
                      i \in ListsUpTo(ExampleIpas, 1)}

\* Vec<IpaEntry>: empty, or a first entry and later entries
Catalogs ==
    {<<>>} \cup
    {<<e>> \o rest : e \in IpaEntries,
                     rest \in ListsUpTo(ShortEntries, MaxEntries - 1)}

\* the bundled resource /com/mohfy/word2ipa/dicts/ipa_lookup_table.json
IpaResources ==
    {[tag |-> t, entries |-> <<>>] : t \in {"missing", "bad_utf8", "bad_json"}}
        \cup {[tag |-> "json", entries |-> c] : c \in Catalogs}

load_ipa_entries(res) ==
    IF res.tag = "missing" THEN Err(<<"Failed to load IPA resource: ", "{e}">>)
    ELSE IF res.tag = "bad_utf8" THEN Err(<<"Invalid UTF-8 in IPA resource: ", "{e}">>)
    ELSE IF res.tag = "bad_json" THEN Err(<<"Failed to parse IPA JSON: ", "{e}">>)
    ELSE Ok(res.entries)

Min(m, n) == IF m <= n THEN m ELSE n

\* faulty variant: the last pair is left out
zip_exclusive(a, b) ==
    [i \in 1..(IF Len(a) <= Len(b) THEN Len(a) ELSE Len(b)) - 1 |-> <<a[i], b[i]>>]

\* Iterator::zip: pairs up to the end of the shorter list
zip(a, b) == [i \in 1..Min(Len(a), Len(b)) |-> <<a[i], b[i]>>]

\* the adw::ActionRow of one entry, its suffix box holding one label per
\* zipped pair
render(entry) ==
    LET pairs == zip(entry.examples, entry.ipa_examples) IN
    [title |-> <<entry.symbol, " - ", entry.sound>>,
     subtitle |-> entry.description,
     labels |-> [j \in 1..Len(pairs) |-> <<"* ", pairs[j][1], " ", pairs[j][2]>>]]

\* faulty variant: the result is unwrapped
entries_or_panic(r) ==
    IF r.ok THEN [pc |-> "running", entries |-> r.val, diag |-> <<>>]
    ELSE [pc |-> "panicked", entries |-> <<>>, diag |-> r.val]

\* match load_ipa_entries(): the entries, or the diagnostic and Vec::new()
entries_or_empty(r) ==
    IF r.ok THEN [pc |-> "running", entries |-> r.val, diag |-> <<>>]
    ELSE [pc |-> "running", entries |-> <<>>,
          diag |-> <<"Error loading IPA dictionary: ">> \o r.val]

InitCatalog ==
    /\ pc = "main"
    /\ dictRes = NoResource
    /\ ipaRes \in IpaResources
    /\ buffer = <<>>
    /\ pending = 0
    /\ ipa_result = <<>>
    /\ history = <<>>
    /\ group = <<>>
    /\ stderr = <<>>
    /\ calls = 0
    /\ loads = 0
    /\ lastCall = <<>>
    /\ ret = Err(<<>>)
    /\ entries = <<>>
    /\ rows = <<>>

IpaDictionaryModel_init ==
    /\ pc = "launch"
    /\ LET m == entries_or_empty(load_ipa_entries(ipaRes)) IN
       /\ pc' = m.pc
       /\ entries' = m.entries
       /\ stderr' = IF m.diag = <<>> THEN stderr ELSE m.diag
       /\ rows' = IF m.pc = "running"
                  THEN [i \in 1..Len(m.entries) |-> render(m.entries[i])]
                  ELSE rows
    /\ UNCHANGED <<dictRes, ipaRes, buffer, pending, ipa_result, history, group,
                   calls, loads, lastCall, ret>>

NextCatalog ==
    \/ main_register
    \/ main_panic
    \/ IpaDictionaryModel_init

SpecCatalog == InitCatalog /\ [][NextCatalog]_vars

\* ------------------------------------------------------------- word_to_ipa claims
Called == lastCall # <<>>

Arg == lastCall[1]

\* the resource loads, parses and has a first entry block
HasFirstBlock == dictRes.tag = "json" /\ Len(dictRes.entries) >= 1

FirstBlock == dictRes.entries[1]

\* lowercase form of a word, by the case table of the alphabet
Lowered(w) == [i \in 1..Len(w) |-> IF w[i] = "A" THEN "a" ELSE w[i]]

IsLowercase(w) == \A i \in 1..Len(w) : w[i] # "A"

\* C1 as stated: for every key w of the first entry block, the call
\* word_to_ipa(lowercase(w)) returns Ok with the transcription stored for w.
C1_EveryKeyResolves ==
    (Called /\ HasFirstBlock) =>
        \A w \in DOMAIN FirstBlock :
            Arg = Lowered(w) => ret = Ok(FirstBlock[w])

\* C1 amended: for every key w of the first entry block that is itself
\* lowercase, word_to_ipa(lowercase(w)) returns Ok with the transcription
\* stored for w.
C1_LowercaseKeyResolves ==
    (Called /\ HasFirstBlock) =>
        \A w \in DOMAIN FirstBlock :
            (IsLowercase(w) /\ Arg = Lowered(w)) => ret = Ok(FirstBlock[w])

\* a lowercase key of a two-key first block whose other key holds another
\* transcription, in a dictionary with a later block, has been resolved
C1_Witness ==
    /\ Called /\ HasFirstBlock
    /\ Len(dictRes.entries) >= 2
    /\ Arg = <<"a">>
    /\ DOMAIN FirstBlock = {<<"a">>, <<" ">>}
    /\ FirstBlock[<<"a">>] # FirstBlock[<<" ">>]
    /\ dictRes.entries[2] # FirstBlock
    /\ ret = Ok(FirstBlock[<<"a">>])

\* C2: an input whose lowercased form is not a key of the first entry block
\* (a key of a later block or not) gets the WordNotFound error, and the
\* error carries the input exactly as given.
C2_NotFoundCarriesInput ==
    (Called /\ HasFirstBlock /\ Lowered(Arg) \notin DOMAIN FirstBlock) =>
        ret = Err(<<"Word '">> \o Arg \o <<"' not found.">>)

\* a mixed-case input that is missing from the first block while its
\* lowercased form is a key of the second block
C2_Witness ==
    /\ Called /\ HasFirstBlock
    /\ Len(dictRes.entries) >= 2
    /\ Arg # Lowered(Arg)
    /\ Lowered(Arg) \notin DOMAIN FirstBlock
    /\ Lowered(Arg) \in DOMAIN dictRes.entries[2]
    /\ ~ret.ok

AllKeysLowercase == \A k \in DOMAIN FirstBlock : IsLowercase(k)

\* two words of the same length that agree at every position up to case
DifferOnlyInCase(w1, w2) ==
    /\ Len(w1) = Len(w2)
    /\ \A i \in 1..Len(w1) : w1[i] = w2[i] \/ {w1[i], w2[i]} = {"a", "A"}

IsWordNotFound(r) ==
    /\ ~r.ok
    /\ Len(r.val) >= 2
    /\ r.val[1] = "Word '"
    /\ r.val[Len(r.val)] = "' not found."

SameOutcome(r1, r2) ==
    \/ r1.ok /\ r2.ok /\ r1.val = r2.val
    \/ IsWordNotFound(r1) /\ IsWordNotFound(r2)

OtherErrors ==
    {<<"Word '">> \o w \o <<"' not found.">> : w \in Words}
        \cup {ResourceMissing, EncodingError, MalformedJson}

\* C4: when the resource parses but has zero entry blocks, every call, for
\* any word, returns the error "Dictionary format error.", which is none of
\* the WordNotFound, ResourceMissing, EncodingError and MalformedJson
\* messages, and is not a hit.
C4_EmptyDictionary ==
    (Called /\ dictRes.tag = "json" /\ dictRes.entries = <<>>) =>
        /\ ret = Err(<<"Dictionary format error.">>)
        /\ ret.val \notin OtherErrors

\* a non-empty word has been looked up in a dictionary with no entry block
C4_Witness ==
    /\ Called /\ dictRes.tag = "json" /\ dictRes.entries = <<>>
    /\ Arg = <<"a">>
    /\ ret = Err(<<"Dictionary format error.">>)

\* ------------------------------------------------------------- submit handler claims
\* a step of the submit handler: one queued Msg::TextChanged is consumed
Handled == pending' < pending

\* the handler called word_to_ipa in this step
Looked == calls' > calls

\* empty after trimming: no character other than whitespace
EmptyAfterTrim(text) == \A i \in 1..Len(text) : text[i] = " "

IsPrefix(s, t) == Len(s) <= Len(t) /\ \A i \in 1..Len(s) : s[i] = t[i]

\* C6: the history is append-only and insertion-ordered: a submit whose
\* resolution succeeds appends exactly the pair (queried word, resolved
\* transcription) at the end, an empty or failing submit leaves the history
\* unchanged, and the history before a step is a prefix of the history
\* after it.
C6_HistoryAppendOnly ==
    [][/\ IsPrefix(history, history')
       /\ (Handled /\ Looked /\ ret'.ok) =>
              history' = history \o << <<buffer, ret'.val>> >>
       /\ ~(Handled /\ Looked /\ ret'.ok) => history' = history]_vars

\* two different pairs have been appended
C6_Witness ==
    /\ Len(history) = 2
    /\ history[1] # history[2]

C10_HistoryAndDisplay ==
    /\ [](\A i \in 1..Len(history) :
            /\ history[i][1] # <<>>
            /\ HasFirstBlock
            /\ Lowered(history[i][1]) \in DOMAIN FirstBlock
            /\ history[i][2] = FirstBlock[Lowered(history[i][1])])
    /\ [][/\ (Handled /\ Looked /\ ret'.ok) =>
                (/\ history' # <<>>
                 /\ history'[Len(history')][1] = buffer
                 /\ ipa_result' = history'[Len(history')][2])
          /\ (Handled /\ Looked /\ ~ret'.ok) =>
                ipa_result' = <<"Error: ">> \o ret'.val]_vars

\* after a failed submit, a word typed in uppercase has been resolved and
\* stored as typed
C10_Witness ==
    /\ stderr # <<>>
    /\ history # <<>>
    /\ history[Len(history)][1] = <<"A">>
    /\ ipa_result = history[Len(history)][2]

\* ------------------------------------------------------------- symbol catalog claims
CatalogDiagnostic ==
    <<"Error loading IPA dictionary: ">> \o
        (IF ipaRes.tag = "missing" THEN <<"Failed to load IPA resource: ", "{e}">>
         ELSE IF ipaRes.tag = "bad_utf8" THEN <<"Invalid UTF-8 in IPA resource: ", "{e}">>
         ELSE <<"Failed to parse IPA JSON: ", "{e}">>)

\* C7: when loading the symbol catalog fails (resource missing, invalid
\* UTF-8 or malformed JSON), the catalog component still initializes, with
\* zero entries and zero rows, the process does not terminate, and the
\* failure is written as a diagnostic.
C7_CatalogDegradesToEmpty ==
    [][(pc = "launch" /\ ipaRes.tag # "json") =>
        (/\ pc' = "running"
         /\ entries' = <<>>
         /\ rows' = <<>>
         /\ stderr' = CatalogDiagnostic)]_vars

\* the catalog component is up, empty, after a malformed catalog resource
C7_Witness ==
    /\ pc = "running"
    /\ ipaRes.tag = "bad_json"
    /\ entries = <<>>
    /\ rows = <<>>
    /\ stderr # <<>>

\* C8: every catalog entry is rendered with exactly
\* min(len(examples), len(ipa_examples)) example lines, the i-th pairing
\* examples[i] with ipa_examples[i]; the unpaired tail of the longer list
\* is dropped.
C8_ExamplesZipped ==
    (pc = "running" /\ ipaRes.tag = "json") =>
        /\ Len(rows) = Len(ipaRes.entries)
        /\ \A i \in 1..Len(ipaRes.entries) :
              LET e == ipaRes.entries[i]
                  n == IF Len(e.examples) <= Len(e.ipa_examples)
                       THEN Len(e.examples) ELSE Len(e.ipa_examples) IN
              /\ Len(rows[i].labels) = n
              /\ \A j \in 1..n :
                    rows[i].labels[j] = <<"* ", e.examples[j], " ", e.ipa_examples[j]>>

\* an entry of three examples and two transcriptions is rendered in two
\* lines
C8_Witness ==
    /\ pc = "running" /\ ipaRes.tag = "json"
    /\ Len(ipaRes.entries) >= 1
    /\ Len(ipaRes.entries[1].examples) = 3
    /\ Len(ipaRes.entries[1].ipa_examples) = 2
    /\ ipaRes.entries[1].examples[1] # ipaRes.entries[1].examples[2]
    /\ ipaRes.entries[1].ipa_examples[1] # ipaRes.entries[1].ipa_examples[2]
    /\ Len(rows[1].labels) = 2

====
